---------------------------- MODULE Spec2Model ----------------------------
(***************************************************************************)
(* A model of football_scout's statistics core                             *)
(* (src/src/football_scout/core/analyzer.py): season aggregation           *)
(* (normalize_stats), market value parsing (_parse_market_value), the      *)
(* value score (calculate_value_score), the age-aligned lookup             *)
(* (compare_at_age) and the text report (generate_report); and of the      *)
(* scouting agent with its catalog of scouted players                      *)
(* (src/src/football_scout/core/agent.py).                                 *)
(*                                                                         *)
(* Texts are sequences of one-character strings.  Python floats are        *)
(* modelled by exact decimal-scaled rationals [n, d, e] = (n / d) * 10^e   *)
(* kept in a unique normal form, so that equality of values is equality of *)
(* records; floating point rounding is not modelled.                       *)
(***************************************************************************)
EXTENDS Integers, Sequences, FiniteSets, TLC

VARIABLES
    pc,         \* "call" or "done" for a call of a PlayerAnalyzer method under
                \* check, "agent" for a FootballScoutAI at work
    seasons,    \* normalize_stats: the argument, a sequence of SeasonStats
    stats,      \* normalize_stats: the outcome (returned value or raised exception)
    form,       \* _parse_market_value: how the argument text is composed
    value_str,  \* _parse_market_value: the argument, None or a text
    parsed,     \* _parse_market_value: the outcome
    player,     \* calculate_value_score, generate_report: the argument, a Player;
                \* compare_at_age: player1
    score,      \* calculate_value_score: the outcome
    at_player2, \* compare_at_age: player2
    at_age,     \* compare_at_age: the age asked for
    comparison, \* compare_at_age: the outcome
    report,     \* generate_report: the outcome
    _players,   \* FootballScoutAI: the catalog self._players
    _llm,       \* FootballScoutAI: self._llm, None until a client is there
    api_key_valid, \* get_settings().validate_api_key(), read once per process
    call,       \* FootballScoutAI: the last method called, with what it met
    outcome,    \* FootballScoutAI: how that call ended
    io,         \* FootballScoutAI: the calls that method made to the scraper,
                \* the file system and the text-completion client, in order
    tasks,      \* interleaved scout_player calls: where each coroutine is
    resumed     \* interleaved scout_player calls: the coroutines in the order
                \* their fetch completed

analyzer_vars ==
    <<seasons, stats, form, value_str, parsed, player, score, at_player2, at_age, comparison, report>>

agent_vars == <<_players, _llm, api_key_valid, call, outcome, io, tasks, resumed>>

vars == <<pc, analyzer_vars, agent_vars>>

(***************************************************************************)
(* Bounds of the model.                                                    *)
(***************************************************************************)
\* longest text drawn exhaustively over ShortChars
MaxLen == 3
\* most digits on either side of the decimal point of a generated numeral
MaxDigits == 2
\* longest generated season list
\* scout_player coroutines that run on one agent at a time
MaxTasks == 2

MaxSeasons == 2

(***************************************************************************)
(* Outcomes of a call: a returned value or a raised exception.             *)
(***************************************************************************)
Return(v) == [kind |-> "return", value |-> v]
Raise(e) == [kind |-> "raise", exc |-> e]
\* an exception raised with an argument
RaiseWith(e, arg) == [kind |-> "raise", exc |-> e, arg |-> arg]
Pending == [kind |-> "pending"]
Unused == [kind |-> "unused"]

\* Python's None, and a str holding the text t
None == [kind |-> "None"]
Str(t) == [kind |-> "str", text |-> t]

(***************************************************************************)
(* Exact arithmetic standing for Python's float arithmetic.                *)
(***************************************************************************)
Abs(x) == IF x < 0 THEN -x ELSE x

RECURSIVE GCD(_, _)
GCD(a, b) == IF b = 0 THEN a ELSE GCD(b, a % b)

RECURSIVE Pow10(_)
Pow10(k) == IF k = 0 THEN 1 ELSE 10 * Pow10(k - 1)

Zero == [n |-> 0, d |-> 1, e |-> 0]

\* move the factors 2 of the denominator into the decimal exponent
RECURSIVE StripTwos(_)
StripTwos(x) ==
    IF x.d % 2 = 0 THEN StripTwos([n |-> x.n * 5, d |-> x.d \div 2, e |-> x.e - 1])
    ELSE x

\* move the factors 5 of the denominator into the decimal exponent
RECURSIVE StripFives(_)
StripFives(x) ==
    IF x.d % 5 = 0 THEN StripFives([n |-> x.n * 2, d |-> x.d \div 5, e |-> x.e - 1])
    ELSE x

\* move the factors 10 of the numerator into the decimal exponent
RECURSIVE StripTens(_)
StripTens(x) ==
    IF x.n % 10 = 0 THEN StripTens([n |-> x.n \div 10, d |-> x.d, e |-> x.e + 1])
    ELSE x

\* the normal form of (n / d) * 10^e, d > 0: n / d in lowest terms, d coprime
\* to 10, n not a multiple of 10; zero is Zero
Norm(n, d, e) ==
    IF n = 0 THEN Zero
    ELSE LET g == GCD(Abs(n), d)
         IN  StripTens(StripFives(StripTwos([n |-> n \div g, d |-> d \div g, e |-> e])))

FromInt(i) == Norm(i, 1, 0)
Dec(m, e) == Norm(m, 1, e)
Neg(x) == [n |-> -x.n, d |-> x.d, e |-> x.e]

Add(x, y) ==
    LET m == IF x.e < y.e THEN x.e ELSE y.e
    IN  Norm(x.n * Pow10(x.e - m) * y.d + y.n * Pow10(y.e - m) * x.d, x.d * y.d, m)

Mul(x, y) == Norm(x.n * y.n, x.d * y.d, x.e + y.e)

\* x / y for y # 0
Quot(x, y) ==
    IF y.n < 0 THEN Norm(-(x.n * y.d), x.d * (-y.n), x.e - y.e)
    ELSE Norm(x.n * y.d, x.d * y.n, x.e - y.e)

(***************************************************************************)
(* The non-finite floats, told from the finite ones by d = 0, and Python's *)
(* float operators over both.                                              *)
(***************************************************************************)
NaN == [n |-> 0, d |-> 0, e |-> 0]
Inf == [n |-> 1, d |-> 0, e |-> 0]
NegInf == [n |-> -1, d |-> 0, e |-> 0]

IsFinite(x) == x.d # 0
Sign(x) == IF x.n > 0 THEN 1 ELSE IF x.n < 0 THEN -1 ELSE 0

\* x * y
float_mul(x, y) ==
    IF x = NaN \/ y = NaN THEN NaN
    ELSE IF IsFinite(x) /\ IsFinite(y) THEN Mul(x, y)
    ELSE IF Sign(x) * Sign(y) = 0 THEN NaN
    ELSE IF Sign(x) * Sign(y) > 0 THEN Inf ELSE NegInf

\* x + y
float_add(x, y) ==
    IF x = NaN \/ y = NaN THEN NaN
    ELSE IF IsFinite(x) /\ IsFinite(y) THEN Add(x, y)
    ELSE IF ~IsFinite(x) /\ ~IsFinite(y) THEN (IF x = y THEN x ELSE NaN)
    ELSE IF IsFinite(x) THEN y ELSE x

\* x / y: ZeroDivisionError on a zero divisor
float_truediv(x, y) ==
    IF y = Zero THEN Raise("ZeroDivisionError")
    ELSE IF x = NaN \/ y = NaN THEN Return(NaN)
    ELSE IF IsFinite(x) /\ IsFinite(y) THEN Return(Quot(x, y))
    ELSE IF ~IsFinite(x) /\ ~IsFinite(y) THEN Return(NaN)
    ELSE IF IsFinite(x) THEN Return(Zero)
    ELSE Return(IF Sign(x) * Sign(y) > 0 THEN Inf ELSE NegInf)

\* x <= y: false when either is NaN
float_le(x, y) ==
    IF x = NaN \/ y = NaN THEN FALSE
    ELSE IF x = y \/ x = NegInf \/ y = Inf THEN TRUE
    ELSE IF x = Inf \/ y = NegInf THEN FALSE
    ELSE ~(Add(x, Neg(y)).n > 0)

\* x > y: false when either is NaN
float_gt(x, y) == x # NaN /\ y # NaN /\ ~float_le(x, y)

(***************************************************************************)
(* Python's str operations, on texts.                                      *)
(***************************************************************************)
Whitespace == {" ", "\t", "\n"}
Digits == {"0", "1", "2", "3", "4", "5", "6", "7", "8", "9"}

\* str.replace(old, ""), old a single character
replace(s, old) == SelectSeq(s, LAMBDA c : c # old)

RECURSIVE lstrip(_)
lstrip(s) == IF s # <<>> /\ Head(s) \in Whitespace THEN lstrip(Tail(s)) ELSE s

RECURSIVE rstrip(_)
rstrip(s) ==
    IF s # <<>> /\ s[Len(s)] \in Whitespace THEN rstrip(SubSeq(s, 1, Len(s) - 1)) ELSE s

\* str.strip()
strip(s) == rstrip(lstrip(s))

lower_char(c) ==
    CASE c = "A" -> "a" [] c = "B" -> "b" [] c = "C" -> "c" [] c = "D" -> "d" [] c = "E" -> "e"
      [] c = "F" -> "f" [] c = "G" -> "g" [] c = "H" -> "h" [] c = "I" -> "i" [] c = "J" -> "j"
      [] c = "K" -> "k" [] c = "L" -> "l" [] c = "M" -> "m" [] c = "N" -> "n" [] c = "O" -> "o"
      [] c = "P" -> "p" [] c = "Q" -> "q" [] c = "R" -> "r" [] c = "S" -> "s" [] c = "T" -> "t"
      [] c = "U" -> "u" [] c = "V" -> "v" [] c = "W" -> "w" [] c = "X" -> "x" [] c = "Y" -> "y"
      [] c = "Z" -> "z"
      [] OTHER -> c

\* str.lower()
lower(s) == [i \in 1..Len(s) |-> lower_char(s[i])]

\* c in s, c a single character
contains(s, c) == \E i \in 1..Len(s) : s[i] = c

\* the least index of s holding a character of cs, 0 when there is none
FirstIndex(s, cs) ==
    IF \E i \in 1..Len(s) : s[i] \in cs
    THEN CHOOSE i \in 1..Len(s) : s[i] \in cs /\ \A j \in 1..(i - 1) : s[j] \notin cs
    ELSE 0

DigitVal(c) ==
    CASE c = "0" -> 0 [] c = "1" -> 1 [] c = "2" -> 2 [] c = "3" -> 3 [] c = "4" -> 4
      [] c = "5" -> 5 [] c = "6" -> 6 [] c = "7" -> 7 [] c = "8" -> 8 [] c = "9" -> 9

AllDigits(s) == \A i \in 1..Len(s) : s[i] \in Digits

\* the value of a sequence of digits, 0 for the empty one
RECURSIVE DigitsToInt(_)
DigitsToInt(ds) ==
    IF ds = <<>> THEN 0
    ELSE 10 * DigitsToInt(SubSeq(ds, 1, Len(ds) - 1)) + DigitVal(ds[Len(ds)])

(***************************************************************************)
(* float(s) on a str: surrounding whitespace is dropped, then, ignoring    *)
(* letter case,                                                            *)
(*   [+-] (inf | infinity | nan)                                           *)
(*   [+-] digits* [. digits*] [e [+-] digits+]   with a digit before the e *)
(* and anything else raises ValueError.  Python also accepts "_" between   *)
(* digits and rounds a magnitude of 1.8e308 or more to inf; no text of     *)
(* this model holds "_" or is long enough to carry such an exponent.       *)
(***************************************************************************)
InfTexts == {<<"i", "n", "f">>, <<"i", "n", "f", "i", "n", "i", "t", "y">>}
NanText == <<"n", "a", "n">>

float(s) ==
    LET t == strip(s)
        signed == t # <<>> /\ t[1] \in {"+", "-"}
        negative == signed /\ t[1] = "-"
        body == IF signed THEN Tail(t) ELSE t
        ePos == FirstIndex(body, {"e", "E"})
        mant == IF ePos = 0 THEN body ELSE SubSeq(body, 1, ePos - 1)
        expo == IF ePos = 0 THEN <<>> ELSE SubSeq(body, ePos + 1, Len(body))
        eSigned == expo # <<>> /\ expo[1] \in {"+", "-"}
        eDigits == IF eSigned THEN Tail(expo) ELSE expo
        dot == FirstIndex(mant, {"."})
        ip == IF dot = 0 THEN mant ELSE SubSeq(mant, 1, dot - 1)
        fp == IF dot = 0 THEN <<>> ELSE SubSeq(mant, dot + 1, Len(mant))
        ok == /\ AllDigits(ip)
              /\ AllDigits(fp)
              /\ Len(ip) + Len(fp) >= 1
              /\ ePos # 0 => (eDigits # <<>> /\ AllDigits(eDigits))
        m == DigitsToInt(ip \o fp)
        ex == IF ePos = 0 THEN 0
              ELSE IF eSigned /\ expo[1] = "-" THEN -DigitsToInt(eDigits)
              ELSE DigitsToInt(eDigits)
    IN  IF lower(body) \in InfTexts THEN Return(IF negative THEN NegInf ELSE Inf)
        ELSE IF lower(body) = NanText THEN Return(NaN)
        ELSE IF ok THEN Return(Dec(IF negative THEN -m ELSE m, ex - Len(fp)))
        ELSE Raise("ValueError")

(***************************************************************************)
(* PlayerAnalyzer._parse_market_value                                      *)
(***************************************************************************)
NotFound == <<"N", "o", "t", " ", "f", "o", "u", "n", "d">>

\* cleaned = value_str.replace("€", "").replace("$", "").replace("£", "").strip()
cleaned_symbols(text) == strip(replace(replace(replace(text, "€"), "$"), "£"))


\* mutant of multiplier: the suffix is looked for without lower()
multiplier_case_sensitive(cleaned) ==
    IF contains(cleaned, "m") THEN Dec(1, 6)
    ELSE IF contains(cleaned, "k") THEN Dec(1, 3)
    ELSE Dec(1, 0)

\* the multiplier chosen by the if/elif on the text without its symbols
multiplier(cleaned) ==
    IF contains(lower(cleaned), "m") THEN Dec(1, 6)
    ELSE IF contains(lower(cleaned), "k") THEN Dec(1, 3)
    ELSE Dec(1, 0)

\* the text handed to float(): cleaned as the if/elif leaves it
cleaned_suffix(cleaned) ==
    IF contains(lower(cleaned), "m") THEN replace(lower(cleaned), "m")
    ELSE IF contains(lower(cleaned), "k") THEN replace(lower(cleaned), "k")
    ELSE cleaned

\* try: return float(cleaned) * multiplier / except ValueError: return 0.0
float_or_zero(cleaned, mult) ==
    LET times(f) == IF f.kind = "raise"
                    THEN IF f.exc = "ValueError" THEN Return(Zero) ELSE f
                    ELSE Return(float_mul(f.value, mult))
    IN  times(float(cleaned))

_parse_market_value(v) ==
    IF v = None \/ v.text = <<>> \/ v.text = NotFound THEN Return(Zero)
    ELSE LET cleaned == cleaned_symbols(v.text)
         IN  float_or_zero(cleaned_suffix(cleaned), multiplier(cleaned))

(***************************************************************************)
(* PlayerAnalyzer.normalize_stats                                          *)
(***************************************************************************)
SeasonStats(season, appearances, goals, assists, yellow_cards, red_cards, minutes_played) ==
    [season |-> season, appearances |-> appearances, goals |-> goals, assists |-> assists,
     yellow_cards |-> yellow_cards, red_cards |-> red_cards,
     minutes_played |-> minutes_played]

\* sum(s.<field> for s in seasons)
RECURSIVE sum(_, _)
sum(ss, field) == IF ss = <<>> THEN 0 ELSE Head(ss)[field] + sum(Tail(ss), field)

\* int / int
int_truediv(a, b) == float_truediv(FromInt(a), FromInt(b))


\* mutant of per_game: the division without its guard
per_game_unguarded(total, total_appearances) == int_truediv(total, total_appearances)

\* total / total_appearances if total_appearances > 0 else 0.0
per_game(total, total_appearances) ==
    IF total_appearances > 0 THEN int_truediv(total, total_appearances) ELSE Return(Zero)


\* mutant of per_90: the rate per minute, not scaled to 90
per_90_unscaled(total, total_minutes) ==
    IF total_minutes > 0 THEN int_truediv(total, total_minutes) ELSE Return(Zero)

\* (total / total_minutes) * 90 if total_minutes > 0 else 0.0
per_90(total, total_minutes) ==
    IF total_minutes > 0
    THEN LET q == int_truediv(total, total_minutes)
         IN  IF q.kind = "raise" THEN q ELSE Return(float_mul(q.value, FromInt(90)))
    ELSE Return(Zero)

normalize_stats(ss) ==
    LET total_goals == sum(ss, "goals")
        total_assists == sum(ss, "assists")
        total_appearances == sum(ss, "appearances")
        total_minutes == sum(ss, "minutes_played")
        goals_per_game == per_game(total_goals, total_appearances)
        assists_per_game == per_game(total_assists, total_appearances)
        minutes_per_game == per_game(total_minutes, total_appearances)
        goals_per_90 == per_90(total_goals, total_minutes)
        assists_per_90 == per_90(total_assists, total_minutes)
        rates == <<goals_per_game, assists_per_game, minutes_per_game,
                   goals_per_90, assists_per_90>>
    IN  IF \E i \in 1..Len(rates) : rates[i].kind = "raise"
        THEN rates[CHOOSE i \in 1..Len(rates) :
                      rates[i].kind = "raise" /\ \A j \in 1..(i - 1) : rates[j].kind # "raise"]
        ELSE Return([total_goals |-> total_goals,
                     total_assists |-> total_assists,
                     total_appearances |-> total_appearances,
                     total_minutes |-> total_minutes,
                     goals_per_game |-> goals_per_game.value,
                     assists_per_game |-> assists_per_game.value,
                     minutes_per_game |-> minutes_per_game.value,
                     goals_per_90 |-> goals_per_90.value,
                     assists_per_90 |-> assists_per_90.value])

(***************************************************************************)
(* PlayerAnalyzer.calculate_value_score                                    *)
(***************************************************************************)
\* the fields of PlayerInfo the modelled code reads; name is a text, each of the
\* others is None or Str(text)
PlayerInfo(name, position, age, nationality, current_club, market_value) ==
    [name |-> name, position |-> position, age |-> age, nationality |-> nationality,
     current_club |-> current_club, market_value |-> market_value]

\* mutant of Player: the statistics are left out
Player_without_stats(info, ss, normalized_stats) ==
    [info |-> info, seasons |-> ss, normalized_stats |-> None]

Player(info, ss, normalized_stats) ==
    [info |-> info, seasons |-> ss, normalized_stats |-> normalized_stats]


\* mutant of stat_score: the two weights exchanged
stat_score_swapped(st) ==
    float_add(float_mul(st.goals_per_90, FromInt(5)), float_mul(st.assists_per_90, FromInt(10)))

\* (stats.goals_per_90 * 10) + (stats.assists_per_90 * 5)
stat_score(st) ==
    float_add(float_mul(st.goals_per_90, FromInt(10)), float_mul(st.assists_per_90, FromInt(5)))

\* (stat_score / market_value) * 10_000_000
value_score(ssc, market_value) ==
    LET q == float_truediv(ssc, market_value)
    IN  IF q.kind = "raise" THEN q ELSE Return(float_mul(q.value, Dec(1, 7)))


\* mutant of worthless: only a market value of 0 is turned away
worthless_only_zero(market_value) == market_value = Zero

\* if market_value <= 0: return 0.0
worthless(market_value) == float_le(market_value, Zero)

calculate_value_score(p) ==
    IF p.normalized_stats = None THEN Return(Zero)
    ELSE LET market_value == _parse_market_value(p.info.market_value)
         IN  IF market_value.kind = "raise" THEN market_value
             ELSE IF worthless(market_value.value) THEN Return(Zero)
             ELSE value_score(stat_score(p.normalized_stats), market_value.value)

(***************************************************************************)
(* PlayerAnalyzer._parse_age and PlayerAnalyzer.compare_at_age             *)
(***************************************************************************)
\* int(s) of a run of digits: a Python int, tagged since None may stand in
\* its place
int(s) == [kind |-> "int", value |-> DigitsToInt(s)]

\* the digits s starts with
RECURSIVE leading_digits(_)
leading_digits(s) ==
    IF s # <<>> /\ Head(s) \in Digits THEN <<Head(s)>> \o leading_digits(Tail(s)) ELSE <<>>


\* re.search(r'\d+', age_str): the text matched, <<>> when nothing matches
search_digits(s) ==
    LET i == FirstIndex(s, Digits)
    IN  IF i = 0 THEN <<>> ELSE leading_digits(SubSeq(s, i, Len(s)))

\* int() of a run of digits never raises, so the except branch is never taken
_parse_age(age_str) ==
    IF age_str = None \/ age_str.text = <<>> THEN Return(None)
    ELSE LET match == search_digits(age_str.text)
         IN  IF match # <<>> THEN Return(int(match)) ELSE Return(None)


\* mutant of seasons_back: the difference taken the other way round
seasons_ahead(current_age, target_age) == target_age - current_age

\* seasons_back = current_age - target_age
seasons_back(current_age, target_age) == current_age - target_age


\* mutant of goals_per_game_of: assists in the place of goals
assists_per_game_of(target_season) ==
    IF target_season.appearances > 0
    THEN int_truediv(target_season.assists, target_season.appearances)
    ELSE Return(Zero)

\* target_season.goals / target_season.appearances if target_season.appearances > 0 else 0
\* (the int 0 of the else branch is the float 0.0 here: the two are equal in
\* Python and print alike under .2f)
goals_per_game_of(target_season) ==
    IF target_season.appearances > 0
    THEN int_truediv(target_season.goals, target_season.appearances)
    ELSE Return(Zero)

\* the dict returned for the season found
season_dict(target_season) ==
    LET goals_per_game == goals_per_game_of(target_season)
    IN  IF goals_per_game.kind = "raise" THEN goals_per_game
        ELSE Return([kind |-> "dict",
                     season |-> target_season.season,
                     goals |-> target_season.goals,
                     assists |-> target_season.assists,
                     appearances |-> target_season.appearances,
                     minutes |-> target_season.minutes_played,
                     goals_per_game |-> goals_per_game.value])

\* list[i]: a negative index counts from the end, an index outside the list
\* raises IndexError
getitem(list, i) ==
    IF 0 <= i /\ i < Len(list) THEN Return(list[i + 1])
    ELSE IF -Len(list) <= i /\ i < 0 THEN Return(list[Len(list) + i + 1])
    ELSE Raise("IndexError")


\* mutant of out_of_range: the test for a negative seasons_back left out
beyond_end(back, n) == back >= n

\* seasons_back < 0 or seasons_back >= len(player.seasons)
out_of_range(back, n) == back < 0 \/ back >= n

\* the inner function of compare_at_age; a SeasonStats object is always truthy,
\* so "if not target_season" only catches the None of the line before it
get_stats_at_age(p, target_age) ==
    IF p.seasons = <<>> THEN Return(None)
    ELSE LET current_age == _parse_age(p.info.age)
         IN  IF current_age.kind = "raise" THEN current_age
             ELSE IF current_age.value = None THEN Return(None)
             ELSE LET back == seasons_back(current_age.value.value, target_age)
                      target_season == IF back < Len(p.seasons) THEN getitem(p.seasons, back)
                                       ELSE Return(None)
                  IN  IF out_of_range(back, Len(p.seasons)) THEN Return(None)
                      ELSE IF target_season.kind = "raise" THEN target_season
                      ELSE IF target_season.value = None THEN Return(None)
                      ELSE season_dict(target_season.value)

compare_at_age(player1, player2, target_age) ==
    LET stats1 == get_stats_at_age(player1, target_age)
        stats2 == get_stats_at_age(player2, target_age)
    IN  IF stats1.kind = "raise" THEN stats1
        ELSE IF stats2.kind = "raise" THEN stats2
        ELSE Return([age |-> target_age,
                     player1 |-> [name |-> player1.info.name, stats |-> stats1.value],
                     player2 |-> [name |-> player2.info.name, stats |-> stats2.value]])

(***************************************************************************)
(* PlayerAnalyzer.generate_report.  A report is a sequence of lines, each a *)
(* record of the line's fixed wording (label) and its replacement field    *)
(* (value).                                                                *)
(***************************************************************************)
NotAvailable == <<"N", "o", "t", " ", "a", "v", "a", "i", "l", "a", "b", "l", "e">>
N_A == <<"N", "/", "A">>

\* x or default, for an Optional[str] x
or_default(x, default) == IF x = None \/ x.text = <<>> THEN default ELSE x.text

\* floor(a / b + 1/2) for a >= 0 and b > 0, ties to the even neighbour
round_half_even(a, b) ==
    LET q == a \div b
        r == a % b
    IN  IF 2 * r > b \/ (2 * r = b /\ q % 2 = 1) THEN q + 1 ELSE q

\* the hundredths of a finite float, rounded
hundredths(x) ==
    LET m == Abs(x.n)
        h == IF x.e + 2 >= 0 THEN round_half_even(m * Pow10(x.e + 2), x.d)
             ELSE round_half_even(m, x.d * Pow10(-(x.e + 2)))
    IN  IF x.n < 0 THEN -h ELSE h

\* format(value, format_spec) of a float: ".2f" is the one well-formed
\* specification the code uses, and gives the value in hundredths; a
\* specification that is no format specification raises ValueError
format(value, format_spec) ==
    IF format_spec = ".2f"
    THEN Return(IF IsFinite(value) THEN [kind |-> "fixed", hundredths |-> hundredths(value)]
                ELSE [kind |-> "nonfinite", value |-> value])
    ELSE Raise("ValueError")

\* the text after the colon in {stats.goals_per_game:.2f if stats else 'N/A'}:
\* the whole of it is the format specification
RateFormatSpec == ".2f if stats else 'N/A'"


\* {stats.<metric>:.2f if stats else 'N/A'}: stats.<metric> is evaluated, then
\* formatted under RateFormatSpec
rate_field(st, metric) ==
    IF st = None THEN Raise("AttributeError") ELSE format(st[metric], RateFormatSpec)

\* {stats.<metric> if stats else 'N/A'}
total_field(st, metric) == IF st # None THEN st[metric] ELSE N_A

Line(label, value) == [label |-> label, value |-> value]

\* the lines of one season of the breakdown
season_block(season) ==
    <<Line("Season:", season.season),
      Line("Appearances:", season.appearances),
      Line("Goals:", season.goals),
      Line("Assists:", season.assists),
      Line("Minutes:", season.minutes_played)>>

RECURSIVE season_blocks(_)
season_blocks(ss) == IF ss = <<>> THEN <<>> ELSE season_block(Head(ss)) \o season_blocks(Tail(ss))

RateMetrics ==
    <<<<"Goals per game:", "goals_per_game">>, <<"Assists per game:", "assists_per_game">>,
      <<"Minutes per game:", "minutes_per_game">>, <<"Goals per 90 min:", "goals_per_90">>,
      <<"Assists per 90 min:", "assists_per_90">>>>

generate_report(p) ==
    LET info == p.info
        st == p.normalized_stats
        overview ==
            <<Line("Player Report for", info.name),
              Line("Position:", or_default(info.position, NotAvailable)),
              Line("Age:", or_default(info.age, NotAvailable)),
              Line("Nationality:", or_default(info.nationality, NotAvailable)),
              Line("Current Club:", or_default(info.current_club, NotAvailable)),
              Line("Market Value:", or_default(info.market_value, NotAvailable))>>
        rates == [i \in 1..Len(RateMetrics) |-> rate_field(st, RateMetrics[i][2])]
        totals ==
            <<Line("Total Goals:", total_field(st, "total_goals")),
              Line("Total Assists:", total_field(st, "total_assists")),
              Line("Total Appearances:", total_field(st, "total_appearances")),
              Line("Total Minutes:", total_field(st, "total_minutes")),
              Line("Season by Season Breakdown:", <<>>)>>
    IN  IF \E i \in 1..Len(rates) : rates[i].kind = "raise"
        THEN rates[CHOOSE i \in 1..Len(rates) :
                      rates[i].kind = "raise" /\ \A j \in 1..(i - 1) : rates[j].kind # "raise"]
        ELSE Return(overview
                    \o [i \in 1..Len(RateMetrics) |-> Line(RateMetrics[i][1], rates[i].value)]
                    \o totals
                    \o season_blocks(p.seasons))

(***************************************************************************)
(* FootballScoutAI (core/agent.py).  self._players is a dict: a sequence of *)
(* items [key, value] in insertion order, no key twice.                    *)
(***************************************************************************)
dict_has(d, k) == \E i \in 1..Len(d) : d[i].key = k

\* d.get(k)
dict_get(d, k) ==
    IF dict_has(d, k) THEN d[CHOOSE i \in 1..Len(d) : d[i].key = k].value ELSE None


\* mutant of dict_set: the dict is begun anew with the one item
dict_only(d, k, v) == <<[key |-> k, value |-> v]>>

\* mutant of dict_set: the item is stored only under a key not yet there
dict_setdefault(d, k, v) ==
    IF dict_has(d, k) THEN d ELSE Append(d, [key |-> k, value |-> v])

\* mutant of dict_set: under a key already there only the info of the player
\* is replaced
dict_set_info_only(d, k, v) ==
    IF dict_has(d, k)
    THEN [i \in 1..Len(d) |->
             IF d[i].key = k THEN [key |-> k, value |-> [d[i].value EXCEPT !.info = v.info]]
             ELSE d[i]]
    ELSE Append(d, [key |-> k, value |-> v])

\* d[k] = v: a key already there keeps its place
dict_set(d, k, v) ==
    IF dict_has(d, k)
    THEN [i \in 1..Len(d) |-> IF d[i].key = k THEN [key |-> k, value |-> v] ELSE d[i]]
    ELSE Append(d, [key |-> k, value |-> v])

\* list(d.values())
dict_values(d) == [i \in 1..Len(d) |-> d[i].value]

dict_keys(d) == {d[i].key : i \in 1..Len(d)}

PlayerReport(p, report_text) == [player |-> p, report_text |-> report_text]

\* what a method leaves behind: the catalog, the text-completion client, how
\* the call ended, and the calls it made to its collaborators
Ended(d, llm, how) == [players |-> d, llm |-> llm, outcome |-> how, io |-> <<>>]

\* one call to a collaborator
Step(collaborator, method, arg) == [collaborator |-> collaborator, method |-> method, arg |-> arg]

\* the method called its collaborators in steps, then went on to end in ended
After(steps, ended) == [ended EXCEPT !.io = steps \o @]


\* mutant of await_fetch: every failure of the scraper is passed on as
\* ScrapingError
await_fetch_as_scraping_error(fetched) ==
    IF fetched.kind = "raise" THEN Raise("ScrapingError") ELSE fetched

\* await self._scraper.fetch_all_player_data(player_name): the pair delivered,
\* or the scraper's exception as it is
await_fetch(fetched) == fetched


\* mutant of catalog_key: the name as given
catalog_key_as_given(player_name) == player_name

\* player_name.lower()
catalog_key(player_name) == lower(player_name)

\* scout_player; fetched is what self._scraper.fetch_all_player_data ends in
\* (a pair <<player_info, seasons>> or an exception), saved what writing the
\* file ends in
scout_player(d, llm, player_name, save_to_file, fetched, saved) ==
    After(<<Step("scraper", "fetch_all_player_data", player_name)>>,
          IF await_fetch(fetched).kind = "raise" THEN Ended(d, llm, await_fetch(fetched))
          ELSE LET player_info == fetched.value[1]
                   ss == fetched.value[2]
                   reported(p, stored, report_text) ==
                       IF save_to_file /\ saved.kind = "raise" THEN Ended(stored, llm, saved)
                       ELSE IF report_text.kind = "raise" THEN Ended(stored, llm, report_text)
                       ELSE Ended(stored, llm, Return(PlayerReport(p, report_text.value)))
                   built(p) ==
                       After(IF save_to_file THEN <<Step("file", "_save_player_data", p)>>
                             ELSE <<>>,
                             reported(p, dict_set(d, catalog_key(player_name), p),
                                      generate_report(p)))
                   normalized(normalized_stats) ==
                       IF normalized_stats.kind = "raise" THEN Ended(d, llm, normalized_stats)
                       ELSE built(Player(player_info, ss, normalized_stats.value))
               IN  normalized(normalize_stats(ss)))

get_scouted_player(d, llm, player_name) ==
    Ended(d, llm, Return(dict_get(d, catalog_key(player_name))))

\* mutant of get_all_scouted_players: the catalog is emptied into the list
get_all_scouted_players_drained(d, llm) == Ended(<<>>, llm, Return(dict_values(d)))

get_all_scouted_players(d, llm) == Ended(d, llm, Return(dict_values(d)))

InfoCategories ==
    <<"name", "position", "age", "nationality", "current_club", "market_value">>

ComparedMetrics ==
    <<"goals_per_game", "assists_per_game", "goals_per_90", "assists_per_90",
      "minutes_per_game">>

\* getattr(player.info, category, 'N/A') or 'N/A'
info_value(p, category) ==
    IF category = "name" THEN (IF p.info.name = <<>> THEN N_A ELSE p.info.name)
    ELSE or_default(p.info[category], N_A)

\* the line of one player under one metric: the :.2f of a float does not raise
metric_value(p, metric) ==
    IF p.normalized_stats # None THEN format(p.normalized_stats[metric], ".2f").value ELSE N_A

compare_players(d, llm, player_names) ==
    LET found == [i \in 1..Len(player_names) |-> dict_get(d, catalog_key(player_names[i]))]
        players == SelectSeq(found, LAMBDA p : p # None)
    IN  IF Len(players) < 2 THEN Ended(d, llm, Raise("NoPlayersScoutedError"))
        ELSE Ended(d, llm, Return(
                 [info |-> [c \in 1..Len(InfoCategories) |->
                              [category |-> InfoCategories[c],
                               lines |-> [i \in 1..Len(players) |->
                                   Line(players[i].info.name,
                                        info_value(players[i], InfoCategories[c]))]]],
                  metrics |-> [m \in 1..Len(ComparedMetrics) |->
                              [metric |-> ComparedMetrics[m],
                               lines |-> [i \in 1..Len(players) |->
                                   Line(players[i].info.name,
                                        metric_value(players[i], ComparedMetrics[m]))]]]]))

\* an LLMClient object
LLMClient == [kind |-> "LLMClient"]

\* mutant of _get_llm: a client is created whether a key is configured or not
_get_llm_without_key(llm, key_configured) ==
    IF llm # None THEN Return(llm) ELSE Return(LLMClient)

\* self._get_llm(): the client is created on first use, which raises LLMError
\* when no API key is configured
_get_llm(llm, key_configured) ==
    IF llm # None THEN Return(llm)
    ELSE IF key_configured THEN Return(LLMClient) ELSE Raise("LLMError")

\* answer_question; answered is what the client's call ends in
answer_question(d, llm, question, key_configured, answered) ==
    IF d = <<>> THEN Ended(d, llm, Raise("NoPlayersScoutedError"))
    ELSE LET client == _get_llm(llm, key_configured)
         IN  IF client.kind = "raise" THEN Ended(d, llm, client)
             ELSE After(<<Step("llm", "answer_question", d)>>,
                        Ended(d, client.value, answered))

\* mutant of sort_reverse: the list is left in catalog order
unsorted(gems) == gems

\* gems.sort(key=lambda x: x[1], reverse=True): stable, equal scores keep
\* their order
RECURSIVE sort_reverse(_)
sort_reverse(gems) ==
    IF gems = <<>> THEN <<>>
    ELSE LET rest == sort_reverse(SubSeq(gems, 1, Len(gems) - 1))
             last == gems[Len(gems)]
             ahead == SelectSeq(rest, LAMBDA g : float_le(last[2], g[2]))
             behind == SelectSeq(rest, LAMBDA g : ~float_le(last[2], g[2]))
         IN  ahead \o <<last>> \o behind

\* mutant of gems_among: the minimum of appearances is not looked at
RECURSIVE gems_among_any_appearances(_, _, _)
gems_among_any_appearances(players, k, min_appearances) ==
    IF k = 0 THEN Return(<<>>)
    ELSE LET before == gems_among_any_appearances(players, k - 1, min_appearances)
             p == players[k]
         IN  IF before.kind = "raise" THEN before
             ELSE IF p.normalized_stats = None THEN before
             ELSE LET appended(scored) ==
                          IF scored.kind = "raise" THEN scored
                          ELSE IF float_gt(scored.value, Zero)
                          THEN Return(Append(before.value, <<p, scored.value>>))
                          ELSE before
                  IN  appended(calculate_value_score(p))

\* the gems among the first k players of the catalog, in catalog order;
\* max_value is not read
RECURSIVE gems_among(_, _, _)
gems_among(players, k, min_appearances) ==
    IF k = 0 THEN Return(<<>>)
    ELSE LET before == gems_among(players, k - 1, min_appearances)
             p == players[k]
         IN  IF before.kind = "raise" THEN before
             ELSE IF p.normalized_stats = None THEN before
             ELSE IF p.normalized_stats.total_appearances < min_appearances THEN before
             ELSE LET appended(scored) ==
                          IF scored.kind = "raise" THEN scored
                          ELSE IF float_gt(scored.value, Zero)
                          THEN Return(Append(before.value, <<p, scored.value>>))
                          ELSE before
                  IN  appended(calculate_value_score(p))

find_hidden_gems(d, llm, max_value, min_appearances) ==
    LET sorted(gems) == IF gems.kind = "raise" THEN Ended(d, llm, gems)
                        ELSE Ended(d, llm, Return(sort_reverse(gems.value)))
    IN  sorted(gems_among(dict_values(d), Len(d), min_appearances))

\* the lines of one player of the age comparison
age_lines(p_data) ==
    IF p_data.stats # None
    THEN <<Line("name", p_data.name),
           Line("Season:", p_data.stats.season),
           Line("Goals:", p_data.stats.goals),
           Line("Assists:", p_data.stats.assists),
           Line("Appearances:", p_data.stats.appearances),
           Line("Goals/Game:", format(p_data.stats.goals_per_game, ".2f").value)>>
    ELSE <<Line("name", p_data.name), Line("No data available for this age", <<>>)>>

\* FootballScoutAI.compare_at_age; analysed is what the client's call ends in
agent_compare_at_age(d, llm, player1_name, player2_name, target_age, key_configured, analysed) ==
    LET player1 == dict_get(d, catalog_key(player1_name))
        player2 == dict_get(d, catalog_key(player2_name))
    IN  IF player1 = None THEN Ended(d, llm, RaiseWith("PlayerNotFoundError", player1_name))
        ELSE IF player2 = None THEN Ended(d, llm, RaiseWith("PlayerNotFoundError", player2_name))
        ELSE LET client == _get_llm(llm, key_configured)
                 compared(comparison_data) ==
                     IF comparison_data.kind = "raise" THEN Ended(d, llm, comparison_data)
                     ELSE IF client.kind = "raise" THEN Ended(d, llm, client)
                     ELSE After(
                         <<Step("llm", "analyze_age_comparison", comparison_data.value)>>,
                         IF analysed.kind = "raise" THEN Ended(d, client.value, analysed)
                         ELSE Ended(d, client.value, Return(
                                  [age |-> target_age,
                                   lines |-> age_lines(comparison_data.value.player1)
                                             \o age_lines(comparison_data.value.player2),
                                   analysis |-> analysed.value])))
             IN  compared(compare_at_age(player1, player2, target_age))

(***************************************************************************)
(* Argument texts of _parse_market_value.  A form records how a text is    *)
(* composed; TextOf gives the text.                                        *)
(***************************************************************************)
\* every text of at most k characters over the set cs
TextsUpTo(cs, k) == UNION {[1..j -> cs] : j \in 0..k}

ShortChars == {"€", " ", "-", "0", "5", ".", "m", "K", "e"}
NumeralDigits == {"0", "5"}
CurrencySymbols == {"€", "$", "£"}
Suffixes == {<<"m">>, <<"M">>, <<"k">>, <<"K">>, <<>>}
Blank == {<<>>, <<" ">>}

\* a decimal numeral: integer digits, an optional point, fraction digits, at
\* least one digit
Numeral(ip, dot, fp) == [ip |-> ip, dot |-> dot, fp |-> fp]
Numerals ==
    {Numeral(ip, FALSE, <<>>) : ip \in (TextsUpTo(NumeralDigits, MaxDigits) \ {<<>>})}
    \cup ({Numeral(ip, TRUE, fp) : ip \in TextsUpTo(NumeralDigits, MaxDigits),
                                   fp \in TextsUpTo(NumeralDigits, MaxDigits)}
          \ {Numeral(<<>>, TRUE, <<>>)})

\* the numerals of tests/unit/test_analyzer.py: 10.00, 25.50, 500, 1.5
FixtureNumerals ==
    {Numeral(<<"1", "0">>, TRUE, <<"0", "0">>), Numeral(<<"2", "5">>, TRUE, <<"5", "0">>),
     Numeral(<<"5", "0", "0">>, FALSE, <<>>), Numeral(<<"1">>, TRUE, <<"5">>)}

NumeralText(n) == n.ip \o (IF n.dot THEN <<".">> ELSE <<>>) \o n.fp

CodeEUR == <<"E", "U", "R", " ">>

\* texts that are not composed: the tests' and the scraper's default, a
\* suffix letter inside the text, and the non-finite floats
ExtraTexts ==
    {NotFound, <<"$", "5", "m">>, <<"1", "m", "0">>, <<"5", "k", "m">>,
     <<"n", "a", "n">>, <<"N", "a", "N">>, <<"i", "n", "f">>, <<"-", "i", "n", "f">>,
     <<"I", "n", "f", "i", "n", "i", "t", "y">>, <<"i", "n", "f", "M">>}

Forms ==
    {[kind |-> "none"]}
    \cup {[kind |-> "raw", text |-> t] : t \in TextsUpTo(ShortChars, MaxLen) \cup ExtraTexts}
    \cup {[kind |-> "symbol", lead |-> l, c |-> c, mid |-> m, n |-> n, s |-> s, trail |-> t] :
            l \in Blank, c \in CurrencySymbols, m \in Blank, n \in Numerals,
            s \in Suffixes, t \in Blank}
    \cup {[kind |-> "code", n |-> n, s |-> s] :
            n \in Numerals \cup FixtureNumerals, s \in Suffixes}

TextOf(f) ==
    CASE f.kind = "none" -> None
      [] f.kind = "raw" -> Str(f.text)
      [] f.kind = "symbol" ->
            Str(f.lead \o <<f.c>> \o f.mid \o NumeralText(f.n) \o f.s \o f.trail)
      [] f.kind = "code" -> Str(CodeEUR \o NumeralText(f.n) \o f.s)

(***************************************************************************)
(* Arguments of normalize_stats and calculate_value_score.                 *)
(***************************************************************************)
\* every sequence of at most k elements of the set S
SeqsUpTo(S, k) == UNION {[1..j -> S] : j \in 0..k}

GeneratedSeasons ==
    {SeasonStats("2024", a, g, s, 0, 0, m) :
        a \in {0, 2}, g \in {0, 3}, s \in {0, 2}, m \in {0, 90}}

\* tests/conftest.py
sample_season_stats ==
    <<SeasonStats("2024", 30, 15, 10, 3, 0, 2500), SeasonStats("2023", 25, 10, 8, 2, 0, 2000)>>

sample_normalized_stats ==
    [total_goals |-> 25, total_assists |-> 18, total_appearances |-> 55,
     total_minutes |-> 4500, goals_per_game |-> Dec(45, -2),
     assists_per_game |-> Dec(33, -2), minutes_per_game |-> Dec(818, -1),
     goals_per_90 |-> Dec(5, -1), assists_per_90 |-> Dec(36, -2)]

EUR_10_00m == <<"E", "U", "R", " ", "1", "0", ".", "0", "0", "m">>

TestPlayer == <<"T", "e", "s", "t", " ", "P", "l", "a", "y", "e", "r">>

sample_player_info ==
    PlayerInfo(TestPlayer, Str(<<"A", "t", "t", "a", "c", "k", "i", "n", "g", " ", "M", "i", "d", "f", "i", "e", "l", "d">>),
               Str(<<"2", "3">>), Str(<<"G", "e", "r", "m", "a", "n", "y">>),
               Str(<<"T", "e", "s", "t", " ", "F", "C">>), Str(EUR_10_00m))

\* the sample player's info with another market value text
priced(mv) == [sample_player_info EXCEPT !.market_value = mv]

sample_player == Player(sample_player_info, sample_season_stats, sample_normalized_stats)

SeasonLists == SeqsUpTo(GeneratedSeasons, MaxSeasons) \cup {sample_season_stats}

\* market value texts of scored players
ScoredTexts ==
    {None, Str(<<>>), Str(NotFound), Str(EUR_10_00m),
     Str(<<"€", "1", "0", ".", "0", "0", "m">>), Str(<<"$", "5", "m">>),
     Str(<<"€", "5", "0", "0", "k">>), Str(<<"£", "5">>), Str(<<"0">>),
     Str(<<"-", "5">>), Str(<<"-", "5", "m">>), Str(<<"i", "n", "f">>), Str(NanText)}

ScoredSeasons ==
    {SeasonStats("2024", 2, g, s, 0, 0, m) : g \in {0, 3}, s \in {0, 2}, m \in {0, 90}}

Players ==
    {Player(priced(mv), ss, ns) :
        mv \in ScoredTexts,
        ss \in SeqsUpTo(ScoredSeasons, MaxSeasons),
        ns \in {None, sample_normalized_stats}}
    \cup {Player(priced(mv), ss, normalize_stats(ss).value) :
            mv \in ScoredTexts,
            ss \in {x \in SeqsUpTo(ScoredSeasons, MaxSeasons) :
                       normalize_stats(x).kind = "return"}}
    \cup {sample_player, Player(sample_player_info, <<>>, None)}

(***************************************************************************)
(* Arguments of compare_at_age and generate_report.                        *)
(***************************************************************************)
AgeTexts ==
    {None, Str(<<>>), Str(NotFound), Str(<<"2", "3">>),
     Str(<<"2", "3", " ", "y", "e", "a", "r", "s", " ", "o", "l", "d">>),
     Str(<<"a", "g", "e", "d", " ", "2", "2">>)}

\* the two seasons of tests/conftest.py and a season without an appearance
AlignedSeasons ==
    {sample_season_stats[1], sample_season_stats[2], SeasonStats("2022", 0, 0, 0, 0, 0, 0)}

AlignedPlayers ==
    {Player([sample_player_info EXCEPT !.age = a], ss, None) :
        a \in AgeTexts, ss \in SeqsUpTo(AlignedSeasons, MaxSeasons)}

\* the ages asked for: from before the oldest season on record to next year
TargetAges == (DigitsToInt(<<"2", "3">>) - MaxSeasons - 1)..(DigitsToInt(<<"2", "3">>) + 1)

ReportedPlayers ==
    Players \cup {Player([sample_player_info EXCEPT !.position = None],
                         sample_season_stats, sample_normalized_stats)}

(***************************************************************************)
(* The environment of the agent: the names asked for, what the scraper     *)
(* delivers, how writing the file and the text-completion service end.     *)
(***************************************************************************)
Ace == <<"A", "c", "e">>

test_player == <<"t", "e", "s", "t", " ", "p", "l", "a", "y", "e", "r">>

ScoutNames == {TestPlayer, test_player, Ace}

\* a second page: another name, age and market value
ace_info ==
    [sample_player_info EXCEPT !.name = Ace, !.age = Str(<<"a", "g", "e", "d", " ", "2", "2">>),
                               !.market_value = Str(<<"€", "5", "m">>)]

\* a third page: the market value is written with the euro sign
Bo == <<"B", "o">>

bo_info == [sample_player_info EXCEPT !.name = Bo, !.market_value = Str(<<"€", "1", "0", "m">>)]

\* a fourth page: the numbers of the third under another name
Cy == <<"C", "y">>

cy_info == [bo_info EXCEPT !.name = Cy]

\* the pages the scraper finds: the sample player with two seasons (a market
\* value of "EUR 10.00m"), the second player with one season, the third and
\* the fourth with the two seasons of the first
Pages ==
    {<<sample_player_info, sample_season_stats>>, <<ace_info, <<sample_season_stats[1]>>>>,
     <<bo_info, sample_season_stats>>, <<cy_info, sample_season_stats>>}

\* fetch_all_player_data(player_name): the scraper's two exceptions or a page
Fetched(player_name) ==
    {RaiseWith("PlayerNotFoundError", player_name), Raise("ScrapingError")}
    \cup {Return(page) : page \in Pages}

\* open() and json.dump() of _save_player_data
Saved == {Return(None), Raise("OSError")}

\* the text-completion client's answer_question / analyze_age_comparison
Completed == {Return(<<"response.content">>), Raise("LLMError")}

\* the requests for a comparison: no name, one name, a name twice, a name in
\* two letter cases, two names in either order
NameLists ==
    {<<>>, <<TestPlayer>>, <<TestPlayer, TestPlayer>>, <<TestPlayer, test_player>>,
     <<TestPlayer, Ace>>, <<Ace, TestPlayer>>}

\* the pairs of names asked to be compared at an age
NamePairs == {<<TestPlayer, Ace>>, <<Ace, test_player>>}

\* no minimum, one between the totals of the pages (30 and 55), one above both
MinAppearances == {0, 31, 56}

MaxValues == {Dec(5, 6)}

AskedAges == {DigitsToInt(<<"2", "2">>)}

(***************************************************************************)
(* The calls under check.  With pc = "call" one method of PlayerAnalyzer   *)
(* is called on an argument and returns or raises (pc = "done").  With     *)
(* pc = "agent" a FootballScoutAI has been created and its methods are     *)
(* called one after the other.                                             *)
(***************************************************************************)
NoAgent ==
    /\ _players = <<>> /\ _llm = None /\ api_key_valid = FALSE
    /\ call = Unused /\ outcome = Unused /\ io = Unused
    /\ tasks = Unused /\ resumed = Unused

InitNormalize ==
    /\ pc = "call"
    /\ seasons \in SeasonLists
    /\ stats = Pending
    /\ form = Unused /\ value_str = Unused /\ parsed = Unused
    /\ player = Unused /\ score = Unused
    /\ at_player2 = Unused /\ at_age = Unused /\ comparison = Unused /\ report = Unused
    /\ NoAgent

InitParse ==
    /\ pc = "call"
    /\ form \in Forms
    /\ value_str = TextOf(form)
    /\ parsed = Pending
    /\ seasons = <<>> /\ stats = Unused
    /\ player = Unused /\ score = Unused
    /\ at_player2 = Unused /\ at_age = Unused /\ comparison = Unused /\ report = Unused
    /\ NoAgent

InitScore ==
    /\ pc = "call"
    /\ player \in Players
    /\ score = Pending
    /\ seasons = <<>> /\ stats = Unused
    /\ form = Unused /\ value_str = Unused /\ parsed = Unused
    /\ at_player2 = Unused /\ at_age = Unused /\ comparison = Unused /\ report = Unused
    /\ NoAgent

InitCompare ==
    /\ pc = "call"
    /\ player \in AlignedPlayers
    /\ at_player2 \in {sample_player, Player(sample_player_info, <<>>, None)}
    /\ at_age \in TargetAges
    /\ comparison = Pending
    /\ seasons = <<>> /\ stats = Unused
    /\ form = Unused /\ value_str = Unused /\ parsed = Unused
    /\ score = Unused /\ report = Unused
    /\ NoAgent

InitReport ==
    /\ pc = "call"
    /\ player \in ReportedPlayers
    /\ report = Pending
    /\ seasons = <<>> /\ stats = Unused
    /\ form = Unused /\ value_str = Unused /\ parsed = Unused
    /\ score = Unused
    /\ at_player2 = Unused /\ at_age = Unused /\ comparison = Unused
    /\ NoAgent

\* FootballScoutAI.__init__: an empty catalog; the client is handed in or left
\* to be created on first use; the settings are read once per process
InitAgent ==
    /\ pc = "agent"
    /\ _players = <<>>
    /\ _llm \in {None, LLMClient}
    /\ api_key_valid \in BOOLEAN
    /\ call = [op |-> "__init__"]
    /\ outcome = Return(None)
    /\ io = <<>>
    /\ tasks = Unused /\ resumed = Unused
    /\ seasons = <<>> /\ stats = Unused
    /\ form = Unused /\ value_str = Unused /\ parsed = Unused
    /\ player = Unused /\ score = Unused
    /\ at_player2 = Unused /\ at_age = Unused /\ comparison = Unused /\ report = Unused

Init == InitNormalize \/ InitParse \/ InitScore \/ InitCompare \/ InitReport \/ InitAgent

NormalizeStats ==
    /\ pc = "call"
    /\ stats = Pending
    /\ stats' = normalize_stats(seasons)
    /\ pc' = "done"
    /\ UNCHANGED <<seasons, form, value_str, parsed, player, score>>
    /\ UNCHANGED <<at_player2, at_age, comparison, report, agent_vars>>

ParseMarketValue ==
    /\ pc = "call"
    /\ parsed = Pending
    /\ parsed' = _parse_market_value(value_str)
    /\ pc' = "done"
    /\ UNCHANGED <<seasons, stats, form, value_str, player, score>>
    /\ UNCHANGED <<at_player2, at_age, comparison, report, agent_vars>>

CalculateValueScore ==
    /\ pc = "call"
    /\ score = Pending
    /\ score' = calculate_value_score(player)
    /\ pc' = "done"
    /\ UNCHANGED <<seasons, stats, form, value_str, parsed, player>>
    /\ UNCHANGED <<at_player2, at_age, comparison, report, agent_vars>>

CompareAtAge ==
    /\ pc = "call"
    /\ comparison = Pending
    /\ comparison' = compare_at_age(player, at_player2, at_age)
    /\ pc' = "done"
    /\ UNCHANGED <<seasons, stats, form, value_str, parsed, player, score>>
    /\ UNCHANGED <<at_player2, at_age, report, agent_vars>>

GenerateReport ==
    /\ pc = "call"
    /\ report = Pending
    /\ report' = generate_report(player)
    /\ pc' = "done"
    /\ UNCHANGED <<seasons, stats, form, value_str, parsed, player, score>>
    /\ UNCHANGED <<at_player2, at_age, comparison, agent_vars>>

\* a method of the agent has run: what it leaves behind
AgentCall(c, ended) ==
    /\ pc = "agent"
    /\ call' = c
    /\ _players' = ended.players
    /\ _llm' = ended.llm
    /\ outcome' = ended.outcome
    /\ io' = ended.io
    /\ UNCHANGED <<pc, api_key_valid, analyzer_vars, tasks, resumed>>

ScoutPlayer ==
    \E player_name \in ScoutNames, save_to_file \in BOOLEAN :
        \E fetched \in Fetched(player_name),
           saved \in (IF save_to_file THEN Saved ELSE {Unused}) :
            AgentCall([op |-> "scout_player", player_name |-> player_name,
                       save_to_file |-> save_to_file, fetched |-> fetched, saved |-> saved],
                      scout_player(_players, _llm, player_name, save_to_file, fetched, saved))

GetScoutedPlayer ==
    \E player_name \in ScoutNames :
        AgentCall([op |-> "get_scouted_player", player_name |-> player_name],
                  get_scouted_player(_players, _llm, player_name))

GetAllScoutedPlayers ==
    AgentCall([op |-> "get_all_scouted_players"], get_all_scouted_players(_players, _llm))

ComparePlayers ==
    \E player_names \in NameLists :
        AgentCall([op |-> "compare_players", player_names |-> player_names],
                  compare_players(_players, _llm, player_names))

AnswerQuestion ==
    \E answered \in Completed :
        AgentCall([op |-> "answer_question", answered |-> answered],
                  answer_question(_players, _llm, "question", api_key_valid, answered))

FindHiddenGems ==
    \E max_value \in MaxValues, min_appearances \in MinAppearances :
        AgentCall([op |-> "find_hidden_gems", max_value |-> max_value,
                   min_appearances |-> min_appearances],
                  find_hidden_gems(_players, _llm, max_value, min_appearances))

AgentCompareAtAge ==
    \E names \in NamePairs, target_age \in AskedAges, analysed \in Completed :
        AgentCall([op |-> "compare_at_age", player1_name |-> names[1],
                   player2_name |-> names[2], age |-> target_age, analysed |-> analysed],
                  agent_compare_at_age(_players, _llm, names[1], names[2], target_age,
                                       api_key_valid, analysed))

Next ==
    \/ NormalizeStats
    \/ ParseMarketValue
    \/ CalculateValueScore
    \/ CompareAtAge
    \/ GenerateReport
    \/ ScoutPlayer
    \/ GetScoutedPlayer
    \/ GetAllScoutedPlayers
    \/ ComparePlayers
    \/ AnswerQuestion
    \/ FindHiddenGems
    \/ AgentCompareAtAge

Spec == Init /\ [][Next]_vars

(***************************************************************************)
(* Interleaved scouts.  Several scout_player coroutines run on one agent   *)
(* and one event loop.  A coroutine gives way only at an await: in         *)
(* scout_player that is the await of fetch_all_player_data, so a coroutine *)
(* runs from its start to that await, and from the completion of the fetch *)
(* to its end, in one piece each.                                          *)
(***************************************************************************)
Tasks == 1..MaxTasks

TaskNames == {TestPlayer, Ace}

\* the pages of the interleaved scouts: two that differ in info and seasons
TaskPages == {<<sample_player_info, sample_season_stats>>, <<ace_info, <<sample_season_stats[1]>>>>}

TaskFetched(player_name) ==
    {RaiseWith("PlayerNotFoundError", player_name), Raise("ScrapingError")}
    \cup {Return(page) : page \in TaskPages}

\* a FootballScoutAI with no coroutine started yet
InitInterleaved ==
    /\ pc = "tasks"
    /\ _players = <<>> /\ _llm = None /\ api_key_valid = FALSE
    /\ call = Unused /\ outcome = Unused /\ io = Unused
    /\ tasks = [t \in Tasks |-> [at |-> "new"]]
    /\ resumed = <<>>
    /\ seasons = <<>> /\ stats = Unused
    /\ form = Unused /\ value_str = Unused /\ parsed = Unused
    /\ player = Unused /\ score = Unused
    /\ at_player2 = Unused /\ at_age = Unused /\ comparison = Unused /\ report = Unused

\* scout_player(player_name) is started and runs up to the await of the fetch
StartScout ==
    /\ pc = "tasks"
    /\ \E t \in Tasks, player_name \in TaskNames :
          /\ tasks[t].at = "new"
          /\ tasks' = [tasks EXCEPT ![t] = [at |-> "await", player_name |-> player_name]]
    /\ UNCHANGED <<pc, analyzer_vars, _players, _llm, api_key_valid, call, outcome, io, resumed>>

\* the fetch of a waiting coroutine completes and the coroutine runs to its end
ResumeScout ==
    /\ pc = "tasks"
    /\ \E t \in Tasks :
          /\ tasks[t].at = "await"
          /\ \E fetched \in TaskFetched(tasks[t].player_name), saved \in Saved :
                LET ended == scout_player(_players, _llm, tasks[t].player_name, TRUE,
                                          fetched, saved)
                IN  /\ _players' = ended.players
                    /\ tasks' = [tasks EXCEPT ![t] =
                                    [at |-> "done", player_name |-> tasks[t].player_name,
                                     fetched |-> fetched, outcome |-> ended.outcome]]
                    /\ resumed' = Append(resumed, t)
    /\ UNCHANGED <<pc, analyzer_vars, _llm, api_key_valid, call, outcome, io>>

NextInterleaved == StartScout \/ ResumeScout

SpecInterleaved == InitInterleaved /\ [][NextInterleaved]_vars

(***************************************************************************)
(* Properties of normalize_stats.                                          *)
(***************************************************************************)
\* the sum of a counter over the first k season records
RECURSIVE TotalTo(_, _, _)
TotalTo(ss, field, k) == IF k = 0 THEN 0 ELSE TotalTo(ss, field, k - 1) + ss[k][field]

Total(ss, field) == TotalTo(ss, field, Len(ss))

NormalizeDone == pc = "done" /\ stats.kind \in {"return", "raise"}

\* C1: the totals are the sums of goals, assists, appearances and minutes over
\* the season records (0 for no record); with appearances > 0 each per-game rate
\* is its total / appearances, with minutes > 0 each per-90 rate is its
\* total * 90 / minutes; 25 goals, 18 assists, 55 appearances and 4500 minutes
\* give 25/55, 18/55, 0.5 and 0.36.
C1_TotalsAndRates ==
    NormalizeDone =>
        /\ stats.kind = "return"
        /\ LET r == stats.value
               goals == Total(seasons, "goals")
               assists == Total(seasons, "assists")
               appearances == Total(seasons, "appearances")
               minutes == Total(seasons, "minutes_played")
           IN  /\ r.total_goals = goals
               /\ r.total_assists = assists
               /\ r.total_appearances = appearances
               /\ r.total_minutes = minutes
               /\ seasons = <<>> =>
                    <<r.total_goals, r.total_assists, r.total_appearances, r.total_minutes>>
                        = <<0, 0, 0, 0>>
               /\ appearances > 0 =>
                    /\ float_mul(r.goals_per_game, FromInt(appearances)) = FromInt(goals)
                    /\ float_mul(r.assists_per_game, FromInt(appearances)) = FromInt(assists)
                    /\ float_mul(r.minutes_per_game, FromInt(appearances)) = FromInt(minutes)
               /\ minutes > 0 =>
                    /\ float_mul(r.goals_per_90, FromInt(minutes)) = FromInt(goals * 90)
                    /\ float_mul(r.assists_per_90, FromInt(minutes)) = FromInt(assists * 90)
               /\ <<goals, assists, appearances, minutes>> = <<25, 18, 55, 4500>> =>
                    /\ r.goals_per_game = Norm(25, 55, 0)
                    /\ r.assists_per_game = Norm(18, 55, 0)
                    /\ r.goals_per_90 = Dec(5, -1)
                    /\ r.assists_per_90 = Dec(36, -2)

\* C1 witness: the two seasons of the tests have been normalized to 25 goals
\* in 55 appearances and 0.5 goals per 90 minutes
C1_Witness ==
    /\ NormalizeDone
    /\ seasons = sample_season_stats
    /\ stats.kind = "return"
    /\ stats.value.total_goals = 25
    /\ stats.value.total_appearances = 55
    /\ stats.value.goals_per_90 = Dec(5, -1)

\* C2: the call never fails on a zero denominator: with 0 appearances in total
\* the three per-game rates are 0.0, with 0 minutes in total the two per-90
\* rates are 0.0.
C2_ZeroDenominators ==
    NormalizeDone =>
        /\ stats.kind = "return"
        /\ Total(seasons, "appearances") = 0 =>
             /\ stats.value.goals_per_game = Zero
             /\ stats.value.assists_per_game = Zero
             /\ stats.value.minutes_per_game = Zero
        /\ Total(seasons, "minutes_played") = 0 =>
             /\ stats.value.goals_per_90 = Zero
             /\ stats.value.assists_per_90 = Zero

\* C2 witness: goals and appearances on record but no minute played, and the
\* call has returned per-90 rates of 0.0 beside a positive rate per game
C2_Witness ==
    /\ NormalizeDone
    /\ Total(seasons, "appearances") > 0
    /\ Total(seasons, "goals") > 0
    /\ Total(seasons, "minutes_played") = 0
    /\ stats.kind = "return"
    /\ stats.value.goals_per_90 = Zero
    /\ stats.value.goals_per_game.n > 0

(***************************************************************************)
(* Properties of _parse_market_value.                                      *)
(***************************************************************************)
\* the value of a decimal numeral, from its digits
NumeralValue(n) == Dec(DigitsToInt(n.ip \o n.fp), -Len(n.fp))

\* the factor a suffix stands for
SuffixFactor(s) ==
    IF s \in {<<"m">>, <<"M">>} THEN Dec(1, 6)
    ELSE IF s \in {<<"k">>, <<"K">>} THEN Dec(1, 3)
    ELSE Dec(1, 0)

ParseDone == pc = "done" /\ parsed.kind \in {"return", "raise"}

\* C3: a text "EUR " + numeral n + suffix parses to n times the factor of the
\* suffix ("EUR 10.00m" to 10,000,000, "EUR 500k" to 500,000).
C3_EurCodeTimesSuffix ==
    (ParseDone /\ form.kind = "code" /\ form.s # <<>>)
        => parsed = Return(Mul(NumeralValue(form.n), SuffixFactor(form.s)))

\* a text Python reads as a finite number
IsDecimalNumeral(t) == float(t).kind = "return" /\ IsFinite(float(t).value)

\* C4: the call always returns a number, never raises; it returns 0.0 for an
\* absent text, the empty text and "Not found", and 0.0 whenever the text left
\* after stripping the symbols and the suffix is not a decimal numeral.
C4_TotalAndZeroOnFailure ==
    ParseDone =>
        /\ parsed.kind = "return"
        /\ parsed.value # NaN
        /\ value_str \in {None, Str(<<>>), Str(NotFound)} => parsed.value = Zero
        /\ (/\ value_str.kind = "str"
            /\ ~IsDecimalNumeral(cleaned_suffix(cleaned_symbols(value_str.text))))
                => parsed.value = Zero

\* C5: a text made of a currency symbol, a decimal numeral n and a suffix, with
\* optional blanks around them, parses to n * 1,000,000 for m or M, n * 1,000
\* for k or K, and n without a suffix.
C5_SymbolNumeralSuffix ==
    (ParseDone /\ form.kind = "symbol")
        => parsed = Return(Mul(NumeralValue(form.n), SuffixFactor(form.s)))

\* C5 witness: " £ 5.5M " has been parsed to 5,500,000
C5_Witness ==
    /\ ParseDone
    /\ form = [kind |-> "symbol", lead |-> <<" ">>, c |-> "£", mid |-> <<" ">>,
               n |-> Numeral(<<"5">>, TRUE, <<"5">>), s |-> <<"M">>, trail |-> <<" ">>]
    /\ parsed = Return(Dec(55, 5))

EndsIn(t, cs) == t # <<>> /\ t[Len(t)] \in cs

\* the factor of a trailing suffix letter, 1 when the text ends in none
TrailingFactor(t) ==
    IF EndsIn(t, {"m", "M"}) THEN Dec(1, 6)
    ELSE IF EndsIn(t, {"k", "K"}) THEN Dec(1, 3)
    ELSE Dec(1, 0)

\* the text without its trailing suffix letter
WithoutTrailingSuffix(t) ==
    IF EndsIn(t, {"m", "M", "k", "K"}) THEN SubSeq(t, 1, Len(t) - 1) ELSE t

\* C6: the multiplier is chosen by the last character of the cleaned text alone
\* and only that character is removed before the numeral is parsed; an m or k
\* elsewhere selects nothing and stays in the text.
C6_TrailingSuffixOnly ==
    (ParseDone /\ value_str.kind = "str" /\ value_str.text \notin {<<>>, NotFound})
        => LET cleaned == cleaned_symbols(value_str.text)
           IN  parsed = float_or_zero(WithoutTrailingSuffix(cleaned), TrailingFactor(cleaned))

\* C7: the returned amount is never negative, whatever the text.
C7_NonNegative == ParseDone => (parsed.kind = "return" /\ parsed.value.n >= 0)

(***************************************************************************)
(* Properties of calculate_value_score.                                    *)
(***************************************************************************)
ScoreDone == pc = "done" /\ score.kind \in {"return", "raise"}

\* C8: the score is exactly 0.0 for a player without normalized stats, and
\* exactly 0.0 for a player whose market value text parses to an amount <= 0.
C8_ZeroWithoutStatsOrValue ==
    ScoreDone =>
        /\ player.normalized_stats = None => score = Return(Zero)
        /\ LET market_value == _parse_market_value(player.info.market_value)
           IN  (market_value.kind = "return" /\ float_le(market_value.value, Zero))
                   => score = Return(Zero)

\* C8 witness: a player with goals to show and the market value text "-5m" has
\* been scored 0.0
C8_Witness ==
    /\ ScoreDone
    /\ player.normalized_stats # None
    /\ player.normalized_stats.goals_per_90.n > 0
    /\ player.info.market_value = Str(<<"-", "5", "m">>)
    /\ score = Return(Zero)

\* ((goals_per_90 * 10 + assists_per_90 * 5) / v) * 10,000,000 for v > 0
ExpectedScore(st, v) ==
    IF v = Inf THEN Zero
    ELSE Mul(Quot(Add(Mul(st.goals_per_90, FromInt(10)), Mul(st.assists_per_90, FromInt(5))), v),
             Dec(1, 7))

\* C9: with normalized stats and a parsed market value v > 0 the score is
\* ((goals_per_90 * 10 + assists_per_90 * 5) / v) * 10,000,000, and the same
\* player at a lower positive market value never scores lower.
C9_ScoreFormula ==
    (ScoreDone /\ player.normalized_stats # None) =>
        LET market_value == _parse_market_value(player.info.market_value)
        IN  (market_value.kind = "return" /\ float_gt(market_value.value, Zero)) =>
                /\ score = Return(ExpectedScore(player.normalized_stats, market_value.value))
                /\ \A t \in ScoredTexts :
                      LET lower_value == _parse_market_value(t)
                          cheaper == [player EXCEPT !.info.market_value = t]
                      IN  (/\ lower_value.kind = "return"
                           /\ float_gt(lower_value.value, Zero)
                           /\ float_le(lower_value.value, market_value.value))
                              => float_le(score.value, calculate_value_score(cheaper).value)

\* C9 witness: 0.5 goals and 0.36 assists per 90 minutes at "$5m" have been
\* scored (0.5 * 10 + 0.36 * 5) / 5,000,000 * 10,000,000 = 13.6
C9_Witness ==
    /\ ScoreDone
    /\ player = Player(priced(Str(<<"$", "5", "m">>)), <<>>,
                       sample_normalized_stats)
    /\ score = Return(Dec(136, -1))

\* C10: a player with positive goals_per_90 and assists_per_90 whose market
\* value text is "EUR 10.00m" gets a strictly positive score.
C10_FixtureScoresPositive ==
    (/\ ScoreDone
     /\ player.normalized_stats # None
     /\ player.info.market_value = Str(EUR_10_00m)
     /\ float_gt(player.normalized_stats.goals_per_90, Zero)
     /\ float_gt(player.normalized_stats.assists_per_90, Zero))
        => (score.kind = "return" /\ float_gt(score.value, Zero))

\* C11: the score is a non-negative number for every player, whatever the
\* season counters, the normalized stats and the market value text.
C11_ScoreNonNegative ==
    ScoreDone => (score.kind = "return" /\ float_le(Zero, score.value))

(***************************************************************************)
(* Properties of the age-aligned lookup of compare_at_age.                 *)
(***************************************************************************)
CompareDone == pc = "done" /\ comparison.kind \in {"return", "raise"}

HasDigit(t) == \E i \in 1..Len(t) : t[i] \in Digits

\* the number written by the first run of digits of a text holding a digit
FirstRunValue(t) ==
    LET i == CHOOSE k \in 1..Len(t) : t[k] \in Digits /\ \A h \in 1..(k - 1) : t[h] \notin Digits
        j == CHOOSE k \in i..Len(t) :
                /\ \A h \in i..k : t[h] \in Digits
                /\ k = Len(t) \/ t[k + 1] \notin Digits
    IN  DigitsToInt(SubSeq(t, i, j))

\* the player's age text is absent, empty or without a digit
AgeUnreadable(p) == p.info.age = None \/ ~HasDigit(p.info.age.text)

\* current_age - target_age for a player with a readable age
SeasonsBack(p, target_age) == FirstRunValue(p.info.age.text) - target_age

\* C12: the lookup never raises and gives None for a player whose age text is
\* absent, empty or without a digit, and whenever seasons_back = current_age -
\* target_age is negative or at least the number of seasons on record, where
\* current_age is the number written by the first run of digits of the age text
\* ("23 years old" and "23" both give 23).
C12_NoDataCases ==
    CompareDone =>
        /\ comparison.kind = "return"
        /\ \A side \in {<<player, comparison.value.player1>>,
                        <<at_player2, comparison.value.player2>>} :
              LET p == side[1]
              IN  /\ AgeUnreadable(p) => side[2].stats = None
                  /\ ~AgeUnreadable(p) =>
                        /\ _parse_age(p.info.age).value.value = FirstRunValue(p.info.age.text)
                        /\ (\/ SeasonsBack(p, at_age) < 0
                            \/ SeasonsBack(p, at_age) >= Len(p.seasons))
                              => side[2].stats = None
        /\ _parse_age(Str(<<"2", "3", " ", "y", "e", "a", "r", "s", " ", "o", "l", "d">>)).value.value = _parse_age(Str(<<"2", "3">>)).value.value

\* C12 witness: a player aged "23 years old" with two seasons on record has
\* been asked for at an age of 24, one year ahead, and no data came back
C12_Witness ==
    /\ CompareDone
    /\ player.info.age = Str(<<"2", "3", " ", "y", "e", "a", "r", "s", " ", "o", "l", "d">>)
    /\ Len(player.seasons) = 2
    /\ SeasonsBack(player, at_age) = -1
    /\ comparison.kind = "return"
    /\ comparison.value.player1.stats = None

\* C13: with a readable age and 0 <= seasons_back < number of seasons the lookup
\* gives the season, goals, assists, appearances and minutes of the record at
\* index seasons_back, with goals_per_game = goals / appearances of that record,
\* or 0 when the record has no appearance; nothing else enters the result.
C13_RecordAtIndex ==
    (CompareDone /\ ~AgeUnreadable(player)
                 /\ 0 <= SeasonsBack(player, at_age)
                 /\ SeasonsBack(player, at_age) < Len(player.seasons)) =>
        /\ comparison.kind = "return"
        /\ LET record == player.seasons[SeasonsBack(player, at_age) + 1]
               found == comparison.value.player1.stats
           IN  /\ found # None
               /\ DOMAIN found = {"kind", "season", "goals", "assists", "appearances",
                                  "minutes", "goals_per_game"}
               /\ found.season = record.season
               /\ found.goals = record.goals
               /\ found.assists = record.assists
               /\ found.appearances = record.appearances
               /\ found.minutes = record.minutes_played
               /\ record.appearances = 0 => found.goals_per_game = Zero
               /\ record.appearances > 0 =>
                     float_mul(found.goals_per_game, FromInt(record.appearances))
                         = FromInt(record.goals)

\* C13 witness: a player aged "23" with the two sample seasons has been asked
\* for at 22, and the record of 2023 came back with 10 goals in 25 appearances,
\* 0.4 a game
C13_Witness ==
    /\ CompareDone
    /\ player.info.age = Str(<<"2", "3">>)
    /\ player.seasons = sample_season_stats
    /\ SeasonsBack(player, at_age) = 1
    /\ comparison.kind = "return"
    /\ comparison.value.player1.stats # None
    /\ comparison.value.player1.stats.season = "2023"
    /\ comparison.value.player1.stats.goals_per_game = Dec(4, -1)

\* the lookup gave the season at index back of the player's list
GaveSeasonAt(p, found, back) ==
    /\ found # None
    /\ 0 <= back /\ back < Len(p.seasons)
    /\ found.season = p.seasons[back + 1].season

\* C14 as stated: for a readable age, no data when seasons_back is negative or
\* exceeds the length of the season list, and the season at index seasons_back
\* in every other case.
C14_NoDataOnlyBeyondLength ==
    (CompareDone /\ ~AgeUnreadable(player)) =>
        /\ comparison.kind = "return"
        /\ LET back == SeasonsBack(player, at_age)
               found == comparison.value.player1.stats
           IN  IF back < 0 \/ back > Len(player.seasons) THEN found = None
               ELSE GaveSeasonAt(player, found, back)

\* C14 amended: for a readable age, no data when seasons_back is negative or at
\* least the length of the season list (the list has no record at index
\* length), and the season at index seasons_back in every other case.
C14_NoDataFromLength ==
    (CompareDone /\ ~AgeUnreadable(player)) =>
        /\ comparison.kind = "return"
        /\ LET back == SeasonsBack(player, at_age)
               found == comparison.value.player1.stats
           IN  IF back < 0 \/ back >= Len(player.seasons) THEN found = None
               ELSE GaveSeasonAt(player, found, back)

\* C14 witness: a player aged "23" with two seasons on record has been asked
\* for at 21, seasons_back equal to the length of the list, and no data came
\* back
C14_Witness ==
    /\ CompareDone
    /\ player.info.age = Str(<<"2", "3">>)
    /\ Len(player.seasons) = 2
    /\ SeasonsBack(player, at_age) = Len(player.seasons)
    /\ comparison.kind = "return"
    /\ comparison.value.player1.stats = None

(***************************************************************************)
(* Properties of the catalog of FootballScoutAI.                           *)
(***************************************************************************)
AgentAtWork == pc = "agent"

\* the last call was a scout_player for which the scraper delivered a page
Scouted == AgentAtWork /\ call.op = "scout_player" /\ call.fetched.kind = "return"

\* the Player a scout builds from the page delivered
Built(page) == Player(page[1], page[2], normalize_stats(page[2]).value)

\* the pairs of an upper-case letter and its lower-case letter in the names
CasePairs == {<<"T", "t">>, <<"P", "p">>, <<"A", "a">>}

UpperCase == {pair[1] : pair \in CasePairs}

\* two names that differ in letter case at most
SameIgnoringCase(n1, n2) ==
    /\ Len(n1) = Len(n2)
    /\ \A i \in 1..Len(n1) :
          n1[i] = n2[i] \/ <<n1[i], n2[i]>> \in CasePairs \/ <<n2[i], n1[i]>> \in CasePairs

\* C15: every key of the catalog is a lower-cased text in every reachable state,
\* and once a player is stored under a name N, get_scouted_player(N') gives that
\* Player for every N' that differs from N in letter case only.
C15_LookupIgnoresCase ==
    AgentAtWork =>
        /\ \A k \in dict_keys(_players) : \A i \in 1..Len(k) : k[i] \notin UpperCase
        /\ Scouted =>
              \A other \in ScoutNames :
                  SameIgnoringCase(other, call.player_name) =>
                      get_scouted_player(_players, _llm, other).outcome
                          = Return(Built(call.fetched.value))

\* C15 witness: a page has been stored under "Test Player" and is what
\* get_scouted_player("test player") gives
C15_Witness ==
    /\ Scouted
    /\ call.player_name = TestPlayer
    /\ get_scouted_player(_players, _llm, <<"t", "e", "s", "t", " ", "p", "l", "a", "y", "e", "r">>).outcome
           = Return(Built(call.fetched.value))

KeysUnique(d) == \A i, j \in 1..Len(d) : d[i].key = d[j].key => i = j

\* the key a name is stored under, from the case pairs
Lowered(name) ==
    [i \in 1..Len(name) |->
        IF \E pair \in CasePairs : pair[1] = name[i]
        THEN (CHOOSE pair \in CasePairs : pair[1] = name[i])[2]
        ELSE name[i]]

\* the value the catalog d holds under key k, None for no entry
Entry(d, k) ==
    IF \E i \in 1..Len(d) : d[i].key = k
    THEN (CHOOSE item \in {d[i] : i \in 1..Len(d)} : item.key = k).value
    ELSE None

\* C16: catalog keys are unique and the most recent scout wins: after a scout
\* that stored a page, the one entry of the lower-cased name holds the Player
\* built from that page and the entries of all other names are as before.
C16_LatestScoutWins ==
    [][(AgentAtWork /\ call'.op = "scout_player" /\ call'.fetched.kind = "return") =>
          /\ KeysUnique(_players')
          /\ Entry(_players', Lowered(call'.player_name)) = Built(call'.fetched.value)
          /\ dict_keys(_players') = dict_keys(_players) \cup {Lowered(call'.player_name)}
          /\ \A k \in dict_keys(_players) \ {Lowered(call'.player_name)} :
                Entry(_players', k) = Entry(_players, k)]_vars

\* C16 witness: "test player" was stored, then "ace", and "Test Player" has
\* been scouted again: two entries, the first now holding the page of the
\* last scout
C16_Witness ==
    /\ Scouted
    /\ call.player_name = TestPlayer
    /\ Len(_players) = 2
    /\ _players[1].key = <<"t", "e", "s", "t", " ", "p", "l", "a", "y", "e", "r">>
    /\ _players[1].value = Built(call.fetched.value)
    /\ _players[2].key = <<"a", "c", "e">>

\* C17: the catalog is empty when the agent is created and no operation removes
\* an entry: across scout, get, list, compare, find-hidden-gems, compare-at-age
\* and ask the set of keys grows or stays as it is.
C17_CatalogOnlyGrows ==
    [][AgentAtWork =>
          /\ call.op = "__init__" => _players = <<>>
          /\ dict_keys(_players) \subseteq dict_keys(_players')]_vars

\* C17 witness: with "test player" stored, a scout of "Ace" has ended and both
\* keys are there
C17_Witness ==
    /\ Scouted
    /\ call.player_name = Ace
    /\ Len(_players) = 2
    /\ _players[2].key = <<"a", "c", "e">>
    /\ dict_keys(_players) = {<<"t", "e", "s", "t", " ", "p", "l", "a", "y", "e", "r">>, <<"a", "c", "e">>}

\* C18: a scout_player call that ends in an error at any step (fetch,
\* normalization, saving to file, report generation) leaves the catalog as it
\* was before the call.
C18_FailedScoutStoresNothing ==
    [][(AgentAtWork /\ call'.op = "scout_player" /\ outcome'.kind = "raise")
          => _players' = _players]_vars

\* C19: whenever the scraper delivers (info, seasons) for a name (and the file,
\* if asked for, is written), scout_player returns a PlayerReport whose player
\* carries that info, those seasons in the order delivered and
\* normalize_stats(seasons), with the report text, and get_scouted_player(name)
\* gives that Player afterwards.
C19_ScoutReturnsReport ==
    (Scouted /\ call.saved.kind # "raise") =>
        /\ outcome.kind = "return"
        /\ outcome.value.player = Built(call.fetched.value)
        /\ outcome.value.player.seasons = call.fetched.value[2]
        /\ outcome.value.report_text = generate_report(Built(call.fetched.value)).value
        /\ get_scouted_player(_players, _llm, call.player_name).outcome
               = Return(outcome.value.player)

(***************************************************************************)
(* Properties of generate_report.                                          *)
(***************************************************************************)
ReportDone == pc = "done" /\ report.kind \in {"return", "raise"}

\* the lines of a report that carry the label
Labelled(text, label) == SelectSeq(text, LAMBDA line : line.label = label)

\* C20: generate_report succeeds for every player with normalized_stats and
\* returns a text with the player's name, the labels "Position:", "Goals per
\* game:" and "Season by Season Breakdown:", and one block per season of the
\* player in list order.
C20_ReportForEveryScoredPlayer ==
    (ReportDone /\ player.normalized_stats # None) =>
        /\ report.kind = "return"
        /\ \E i \in 1..Len(report.value) : report.value[i].value = player.info.name
        /\ \A label \in {"Position:", "Goals per game:", "Season by Season Breakdown:"} :
              Labelled(report.value, label) # <<>>
        /\ LET blocks == Labelled(report.value, "Season:")
           IN  /\ Len(blocks) = Len(player.seasons)
               /\ \A i \in 1..Len(blocks) : blocks[i].value = player.seasons[i].season

(***************************************************************************)
(* Properties of compare_players.                                          *)
(***************************************************************************)
\* the stored players the names of a request stand for, in request order
Resolved(d, names) ==
    SelectSeq([i \in 1..Len(names) |-> Entry(d, Lowered(names[i]))], LAMBDA p : p # None)

\* C21: compare_players called with names of which fewer than 2 resolve to
\* stored players returns an "insufficient / not enough players" result, never
\* raises, and leaves the catalog unchanged.
C21_TooFewIsReturned ==
    [][(AgentAtWork /\ call'.op = "compare_players"
            /\ Len(Resolved(_players, call'.player_names)) < 2)
          => /\ outcome'.kind = "return"
             /\ _players' = _players]_vars

\* the keys of the stored players a request names
ResolvedKeys(d, names) == {Lowered(names[i]) : i \in 1..Len(names)} \cap dict_keys(d)

\* the resolved players without repetition, each at its first place in the
\* request
RECURSIVE OncePerPlayer(_)
OncePerPlayer(ps) ==
    IF ps = <<>> THEN <<>>
    ELSE LET front == OncePerPlayer(SubSeq(ps, 1, Len(ps) - 1))
             last == ps[Len(ps)]
         IN  IF \E i \in 1..Len(front) : front[i] = last THEN front ELSE Append(front, last)

CompareEnded == AgentAtWork /\ call.op = "compare_players"

\* C22: compare_players produces a comparison only when the requested names
\* resolve to at least 2 distinct catalog entries; names that all resolve to
\* one entry fail as "not enough players"; in a comparison each resolved player
\* has one line per category, in the order of the requested names.
C22_TwoDistinctEntries ==
    CompareEnded =>
        LET keys == ResolvedKeys(_players, call.player_names)
            once == OncePerPlayer(Resolved(_players, call.player_names))
        IN  /\ Cardinality(keys) < 2 => outcome = Raise("NoPlayersScoutedError")
            /\ Cardinality(keys) >= 2 =>
                 /\ outcome.kind = "return"
                 /\ \A c \in 1..Len(outcome.value.info) :
                       LET lines == outcome.value.info[c].lines
                       IN  /\ Len(lines) = Len(once)
                           /\ \A i \in 1..Len(lines) : lines[i].label = once[i].info.name
                 /\ \A m \in 1..Len(outcome.value.metrics) :
                       LET lines == outcome.value.metrics[m].lines
                       IN  /\ Len(lines) = Len(once)
                           /\ \A i \in 1..Len(lines) : lines[i].label = once[i].info.name

(***************************************************************************)
(* Properties of find_hidden_gems.                                         *)
(***************************************************************************)
GemsEnded == AgentAtWork /\ call.op = "find_hidden_gems"

\* a stored player that belongs in the result for the minimum asked
Qualifies(p, min_appearances) ==
    /\ p.normalized_stats # None
    /\ p.normalized_stats.total_appearances >= min_appearances
    /\ calculate_value_score(p).kind = "return"
    /\ float_gt(calculate_value_score(p).value, Zero)

\* the places of the sequence seq where Test holds
Places(seq, Test(_)) == {i \in 1..Len(seq) : Test(seq[i])}

\* C23: find_hidden_gems returns exactly the catalog players that have
\* normalized_stats, total_appearances >= min_appearances and a value score > 0,
\* each paired with its calculate_value_score result: no player below the
\* minimum, no score <= 0, no catalog entry twice.
C23_ExactlyTheQualifying ==
    GemsEnded =>
        /\ outcome.kind = "return"
        /\ \A i \in 1..Len(outcome.value) :
              LET p == outcome.value[i][1]
              IN  /\ p.normalized_stats # None
                  /\ p.normalized_stats.total_appearances >= call.min_appearances
                  /\ Return(outcome.value[i][2]) = calculate_value_score(p)
                  /\ float_gt(outcome.value[i][2], Zero)
        /\ \A item \in {_players[i] : i \in 1..Len(_players)} :
              Cardinality(Places(outcome.value, LAMBDA g : g[1] = item.value))
                  = IF Qualifies(item.value, call.min_appearances)
                    THEN Cardinality(Places(_players, LAMBDA e : e.value = item.value))
                    ELSE 0

\* C23 witness: with a player of 30 appearances and one of 55 stored,
\* find_hidden_gems with a minimum of 31 has returned the second alone
C23_Witness ==
    /\ GemsEnded
    /\ call.min_appearances = 31
    /\ Len(_players) = 2
    /\ _players[1].value.normalized_stats.total_appearances = 30
    /\ _players[2].value.normalized_stats.total_appearances = 55
    /\ outcome.kind = "return"
    /\ Len(outcome.value) = 1
    /\ outcome.value[1][1] = _players[2].value

\* the keys of the catalog in the order the dict holds them
KeyOrder(d) == [i \in 1..Len(d) |-> d[i].key]

\* a list of gems in descending order of score, players of equal score in the
\* order the catalog d holds them
SortedStable(gems, d) ==
    \A i, j \in 1..Len(gems) :
        i < j =>
            /\ float_le(gems[j][2], gems[i][2])
            /\ (gems[i][2] = gems[j][2] /\ gems[i][1] # gems[j][1]) =>
                  \E a, b \in 1..Len(d) :
                      a < b /\ d[a].value = gems[i][1] /\ d[b].value = gems[j][1]

\* C24: the result of find_hidden_gems is sorted by score in descending order
\* and players with equal scores appear in catalog insertion order: a scout of
\* a new name puts its key last, a scout of a stored name leaves the order of
\* the keys as it is.
C24_SortedDescendingStable ==
    [][AgentAtWork =>
          /\ (call'.op = "find_hidden_gems" /\ outcome'.kind = "return")
                => SortedStable(outcome'.value, _players')
          /\ (call'.op = "scout_player" /\ Lowered(call'.player_name) \in dict_keys(_players))
                => KeyOrder(_players') = KeyOrder(_players)
          /\ (call'.op = "scout_player" /\ call'.fetched.kind = "return"
                  /\ Lowered(call'.player_name) \notin dict_keys(_players))
                => KeyOrder(_players') = Append(KeyOrder(_players), Lowered(call'.player_name))]_vars

\* C24 witness: the catalog holds a player of the lower score before one of the
\* higher score, and find_hidden_gems has returned the second before the first
C24_Witness ==
    /\ GemsEnded
    /\ outcome.kind = "return"
    /\ Len(_players) = 2
    /\ Len(outcome.value) = 2
    /\ outcome.value[1][1] = _players[2].value
    /\ outcome.value[2][1] = _players[1].value
    /\ ~float_le(outcome.value[1][2], outcome.value[2][2])

\* C25: find_hidden_gems(max_value, min_appearances) returns no player whose
\* parsed market value is greater than max_value.
C25_NoneAboveMaxValue ==
    (GemsEnded /\ outcome.kind = "return") =>
        \A i \in 1..Len(outcome.value) :
            float_le(_parse_market_value(outcome.value[i][1].info.market_value).value,
                     call.max_value)

(***************************************************************************)
(* Frame of the query operations.                                          *)
(***************************************************************************)
QueryOperations ==
    {"get_scouted_player", "get_all_scouted_players", "compare_players", "find_hidden_gems",
     "compare_at_age", "answer_question"}

\* C26: only scout_player changes the catalog: get_scouted_player,
\* get_all_scouted_players, compare_players, find_hidden_gems, compare_at_age
\* and answer_question leave the keys and every stored Player as they were,
\* whether they return or raise.
C26_QueriesLeaveCatalog ==
    [][(AgentAtWork /\ call'.op \in QueryOperations) => _players' = _players]_vars

\* C26 witness: with two players stored, the list of all players has been
\* given, and both are still stored
C26_Witness ==
    /\ AgentAtWork
    /\ call.op = "get_all_scouted_players"
    /\ Len(_players) = 2
    /\ outcome = Return(<<_players[1].value, _players[2].value>>)

(***************************************************************************)
(* Failures of the scraper.                                                *)
(***************************************************************************)
\* C27: when the scraper fails for a name with PlayerNotFoundError or with
\* ScrapingError, scout_player ends in that same exception, has called the
\* scraper once and nothing else, has stored nothing and written no file.
C27_ScraperFailurePropagates ==
    [][(AgentAtWork /\ call'.op = "scout_player" /\ call'.fetched.kind = "raise") =>
          /\ call'.fetched.exc \in {"PlayerNotFoundError", "ScrapingError"}
          /\ outcome' = call'.fetched
          /\ io' = <<Step("scraper", "fetch_all_player_data", call'.player_name)>>
          /\ _players' = _players]_vars

\* C27 witness: with a player stored, a scout of "Ace" that was to save a file
\* has ended in the scraper's PlayerNotFoundError for "Ace"
C27_Witness ==
    /\ AgentAtWork
    /\ call.op = "scout_player"
    /\ call.player_name = Ace
    /\ call.save_to_file
    /\ call.fetched = RaiseWith("PlayerNotFoundError", Ace)
    /\ outcome = RaiseWith("PlayerNotFoundError", Ace)
    /\ dict_keys(_players) = {test_player}

(***************************************************************************)
(* The players of the catalog.                                             *)
(***************************************************************************)
\* C28: in every reachable state every stored Player has normalized_stats, and
\* they are normalize_stats of that Player's own season list: statistics and
\* seasons are only replaced together.
C28_StoredPlayersHaveOwnStats ==
    AgentAtWork =>
        \A i \in 1..Len(_players) :
            /\ _players[i].value.normalized_stats # None
            /\ normalize_stats(_players[i].value.seasons)
                   = Return(_players[i].value.normalized_stats)

\* C28 witness: two players with different season lists are stored, the first
\* with 55 appearances in two seasons, the second with 30 in one
C28_Witness ==
    /\ AgentAtWork
    /\ Len(_players) = 2
    /\ Len(_players[1].value.seasons) = 2
    /\ Len(_players[2].value.seasons) = 1
    /\ _players[1].value.normalized_stats.total_appearances = 55
    /\ _players[2].value.normalized_stats.total_appearances = 30

(***************************************************************************)
(* Properties of FootballScoutAI.compare_at_age.                           *)
(***************************************************************************)
\* a compare_at_age call is ending in the step
AgeCompared == AgentAtWork /\ call'.op = "compare_at_age"

\* the stored players the two names of the call stand for
First == Entry(_players, Lowered(call'.player1_name))
Second == Entry(_players, Lowered(call'.player2_name))

\* a name is missing: PlayerNotFoundError for player1 when it is missing, else
\* for player2; no client is created or called, the catalog stays
MissingNameRaised ==
    /\ First = None => outcome' = RaiseWith("PlayerNotFoundError", call'.player1_name)
    /\ (First # None /\ Second = None)
          => outcome' = RaiseWith("PlayerNotFoundError", call'.player2_name)
    /\ (First = None \/ Second = None) => (io' = <<>> /\ _llm' = _llm /\ _players' = _players)

\* the client was called once, with the snapshots of the two players at the age
CalledOnceWithSnapshots ==
    /\ Len(io') = 1
    /\ io'[1].collaborator = "llm"
    /\ io'[1].method = "analyze_age_comparison"
    /\ io'[1].arg.age = call'.age
    /\ io'[1].arg.player1
           = [name |-> First.info.name, stats |-> get_stats_at_age(First, call'.age).value]
    /\ io'[1].arg.player2
           = [name |-> Second.info.name, stats |-> get_stats_at_age(Second, call'.age).value]
    /\ call'.analysed.kind = "raise" => outcome' = Raise("LLMError")

\* C29 as stated: compare_at_age fails with PlayerNotFoundError when either name
\* is not in the catalog (ignoring case), naming player1 when both are missing,
\* without creating or calling the client and leaving the catalog; when both
\* are present the client is called exactly once with the two snapshots and its
\* failure surfaces as LLMError.
C29_CalledOnceWheneverBothPresent ==
    [][AgeCompared =>
          /\ MissingNameRaised
          /\ (First # None /\ Second # None) => CalledOnceWithSnapshots]_vars

\* there is a client, or one can be created
ClientAtHand == _llm # None \/ api_key_valid

\* C29 amended: as stated, but with both names present the client is called
\* once only if there is one or an API key is configured to create one;
\* without either the call fails with LLMError and no client is called.
C29_CalledOnceWithClient ==
    [][AgeCompared =>
          /\ MissingNameRaised
          /\ (First # None /\ Second # None /\ ClientAtHand) => CalledOnceWithSnapshots
          /\ (First # None /\ Second # None /\ ~ClientAtHand)
                => (outcome' = Raise("LLMError") /\ io' = <<>> /\ _llm' = None)]_vars

\* C29 witness: "Test Player" and "Ace" are both stored, the client was called
\* once about them and failed, and compare_at_age has ended in LLMError
C29_Witness ==
    /\ AgentAtWork
    /\ call.op = "compare_at_age"
    /\ <<call.player1_name, call.player2_name>> = <<TestPlayer, Ace>>
    /\ dict_keys(_players) = {test_player, Lowered(Ace)}
    /\ Len(io) = 1
    /\ io[1].arg.player1.name = Entry(_players, test_player).info.name
    /\ outcome = Raise("LLMError")

(***************************************************************************)
(* Properties of interleaved scouts.                                       *)
(***************************************************************************)
\* the coroutines that stored under key k, in the order their fetch completed
Storers(k) ==
    SelectSeq(resumed, LAMBDA t : /\ tasks[t].fetched.kind = "return"
                                  /\ Lowered(tasks[t].player_name) = k)

\* C30: with several scout_player calls interleaved on one agent, every catalog
\* entry in every reachable state is a complete Player built by a single call,
\* its info, seasons and normalized_stats from one fetch, and under each name
\* the entry is the one of the call whose fetch completed last.
C30_EntriesAreWholeAndLatest ==
    pc = "tasks" =>
        /\ KeysUnique(_players)
        /\ \A k \in dict_keys(_players) :
              /\ Storers(k) # <<>>
              /\ LET last == tasks[Storers(k)[Len(Storers(k))]]
                 IN  /\ Entry(_players, k).info = last.fetched.value[1]
                     /\ Entry(_players, k).seasons = last.fetched.value[2]
                     /\ Return(Entry(_players, k).normalized_stats)
                            = normalize_stats(last.fetched.value[2])
        /\ \A t \in Tasks :
              (tasks[t].at = "done" /\ tasks[t].fetched.kind = "return")
                  => Lowered(tasks[t].player_name) \in dict_keys(_players)

\* C30 witness: two scouts of "Test Player" overlapped, the second started was
\* the first to have its page and the first started the last, and the entry
\* is the player of the page that came last
C30_Witness ==
    /\ pc = "tasks"
    /\ resumed = <<2, 1>>
    /\ tasks[1].player_name = TestPlayer
    /\ tasks[2].player_name = TestPlayer
    /\ tasks[1].fetched.kind = "return"
    /\ tasks[2].fetched.kind = "return"
    /\ tasks[1].fetched # tasks[2].fetched
    /\ Len(_players) = 1
    /\ _players[1].value = Built(tasks[1].fetched.value)

=============================================================================
